---------------------------- MODULE Spec2Model ----------------------------
(***************************************************************************)
(* A model of the Repeaty launcher (launcher/src/main_launcher.rs):        *)
(*   - the PNG ancillary-chunk scanner png_extract_chunks_to_copy,         *)
(*   - the pattern pipeline create_pattern_png (parallel compositing with  *)
(*     copy_pixels, then encode_png),                                      *)
(*   - the GUI state machine RepeatyGui (load_image, the four setters,     *)
(*     update).                                                            *)
(* The specifications of the module: SpecScan (SpecScanLive with fairness), *)
(* SpecPattern, SpecGui, and SpecFn for functions called on their own.     *)
(* Each leaves the variables of the others untouched.                      *)
(*                                                                         *)
(* Byte positions are 0-based as in the source; TLA+ sequences are 1-based,*)
(* so Slice(b, lo, hi) is the Rust slice b[lo..hi].                        *)
(* f64 values are modelled as exact rationals plus NaN and the two         *)
(* infinities: rounding error and the sign of zero are abstracted away.    *)
(***************************************************************************)
EXTENDS Integers, Sequences, FiniteSets, TLC

(***************************************************************************)
(* Bounds of the model.                                                    *)
(***************************************************************************)
\* most chunks in a generated input stream
MaxChunks == 2
\* largest width and height of a source bitmap
MaxSrcDim == 2
\* largest width and height of the pattern create_pattern_png is asked for
MaxOutW == 3
MaxOutH == 2
\* largest chunk size and thread count of the compositing phase
MaxChunkSize == 3
MaxThreads == 2
\* most preserved chunks handed to encode_png
MaxMeta == 2

(***************************************************************************)
(* Bytes.                                                                  *)
(***************************************************************************)
Min(a, b) == IF a <= b THEN a ELSE b

\* b[lo..hi].  A request that runs past the end of b yields the bytes there
\* are; the scanner records every request in slices, where a request out of
\* range shows.
Slice(b, lo, hi) == SubSeq(b, lo + 1, Min(hi, Len(b)))

\* bincode big-endian u32 of the four bytes b
U32BE(b) == b[1] * 16777216 + b[2] * 65536 + b[3] * 256 + b[4]

\* A u32 of 2^30 or more.  The checker's integers are 32 bits wide, usize on
\* the 64-bit target is not: such a length is kept as "larger than any
\* stream of the model" and U32BE is never evaluated on it.
HugeU32(b) == b[1] >= 64

\* the four big-endian bytes of n (what a PNG writer puts in a length field)
U32Bytes(n) ==
    << (n \div 16777216) % 256, (n \div 65536) % 256, (n \div 256) % 256, n % 256 >>

IsCont(x) == x >= 128 /\ x <= 191

\* std::str::from_utf8(..).is_ok() on a byte sequence
RECURSIVE IsUtf8(_)
IsUtf8(b) ==
    IF Len(b) = 0 THEN TRUE
    ELSE LET x == b[1]
             n == Len(b)
         IN  IF x <= 127 THEN IsUtf8(Tail(b))
             ELSE IF x >= 194 /\ x <= 223
                  THEN n >= 2 /\ IsCont(b[2]) /\ IsUtf8(SubSeq(b, 3, n))
             ELSE IF x >= 224 /\ x <= 239
                  THEN /\ n >= 3
                       /\ IsCont(b[2]) /\ IsCont(b[3])
                       /\ (x = 224 => b[2] >= 160)
                       /\ (x = 237 => b[2] <= 159)
                       /\ IsUtf8(SubSeq(b, 4, n))
             ELSE IF x >= 240 /\ x <= 244
                  THEN /\ n >= 4
                       /\ IsCont(b[2]) /\ IsCont(b[3]) /\ IsCont(b[4])
                       /\ (x = 240 => b[2] >= 144)
                       /\ (x = 244 => b[2] <= 143)
                       /\ IsUtf8(SubSeq(b, 5, n))
             ELSE FALSE

(***************************************************************************)
(* PNG constants.                                                          *)
(***************************************************************************)
PNG_HEADER == << 137, 80, 78, 71, 13, 10, 26, 10 >>

Tag_cHRM == << 99, 72, 82, 77 >>
Tag_gAMA == << 103, 65, 77, 65 >>
Tag_iCCP == << 105, 67, 67, 80 >>
Tag_pHYs == << 112, 72, 89, 115 >>
Tag_sRGB == << 115, 82, 71, 66 >>
Tag_IHDR == << 73, 72, 68, 82 >>
Tag_IDAT == << 73, 68, 65, 84 >>
Tag_IEND == << 73, 69, 78, 68 >>
\* four bytes that are not UTF-8
Tag_Bad == << 255, 72, 68, 82 >>

\* a match that also keeps the critical chunks
KeepChunkAll(chunk_type) ==
    chunk_type \in { Tag_cHRM, Tag_gAMA, Tag_iCCP, Tag_pHYs, Tag_sRGB, Tag_IHDR, Tag_IDAT }

\* lines 167-174: the match on chunk_type
KeepChunk(chunk_type) ==
    chunk_type \in { Tag_cHRM, Tag_gAMA, Tag_iCCP, Tag_pHYs, Tag_sRGB }

\* HashMap::insert
\* an insert that keeps the value a key already has
MapInsertKeepFirst(m, k, v) ==
    [ x \in DOMAIN m \cup {k} |-> IF x \in DOMAIN m THEN m[x] ELSE v ]

MapInsert(m, k, v) == [ x \in DOMAIN m \cup {k} |-> IF x = k THEN v ELSE m[x] ]

EmptyMap == [ x \in {} |-> << >> ]

(***************************************************************************)
(* png_extract_chunks_to_copy, one step at a time.  Each operator returns  *)
(* what the step leaves: ok (FALSE: the assert! or expect panicked), the   *)
(* slices of file_bytes it took as <<lo, hi>> pairs, and the new values.   *)
(***************************************************************************)
\* lines 136-142: the two header assertions
CheckHeader(file_bytes) ==
    IF ~(Len(file_bytes) > Len(PNG_HEADER))
    THEN [ ok |-> FALSE, slices |-> {} ]
    ELSE [ ok |-> Slice(file_bytes, 0, 8) = PNG_HEADER, slices |-> { <<0, 8>> } ]

\* a scanner that checks only that the length and type fields fit
ChunkFitsHeaderOnly(chunk_complete_length, remaining_bytes) == 8 <= remaining_bytes

\* line 158: the condition of the remaining-bytes assertion
ChunkFits(chunk_complete_length, remaining_bytes) ==
    chunk_complete_length <= remaining_bytes

\* a copy of the chunk's data that runs on through the 4 CRC bytes
ChunkDataWithCrc(file_bytes, chunk_data_pos, chunk_data_length) ==
    Slice(file_bytes, chunk_data_pos, chunk_data_pos + chunk_data_length + 4)

\* line 179: the bytes copied into the map
ChunkData(file_bytes, chunk_data_pos, chunk_data_length) ==
    Slice(file_bytes, chunk_data_pos, chunk_data_pos + chunk_data_length)

\* lines 147-182: one iteration of the while loop
ScanChunk(file_bytes, chunk_begin_pos, chunks) ==
    LET n == Len(file_bytes)
        \* &file_bytes[chunk_begin_pos..], handed to bincode
        rest == Slice(file_bytes, chunk_begin_pos, n)
        s1 == { <<chunk_begin_pos, n>> }
    IN  IF Len(rest) < 4
        THEN \* deserialize::<u32> fails on fewer than 4 bytes: expect panics
             [ ok |-> FALSE, slices |-> s1, chunks |-> chunks, pos |-> chunk_begin_pos ]
        ELSE
        LET chunk_data_length == U32BE(rest)
            chunk_complete_length == 4 + 4 + chunk_data_length + 4
            remaining_bytes == n - chunk_begin_pos
        IN  IF HugeU32(rest) \/ ~ChunkFits(chunk_complete_length, remaining_bytes)
            THEN [ ok |-> FALSE, slices |-> s1, chunks |-> chunks, pos |-> chunk_begin_pos ]
            ELSE
            LET s2 == s1 \cup { <<chunk_begin_pos + 4, chunk_begin_pos + 8>> }
                chunk_type == Slice(file_bytes, chunk_begin_pos + 4, chunk_begin_pos + 8)
                chunk_data_pos == chunk_begin_pos + 4 + 4
                s3 == s2 \cup { <<chunk_data_pos, chunk_data_pos + chunk_data_length>> }
            IN  IF ~IsUtf8(chunk_type)
                THEN [ ok |-> FALSE, slices |-> s2, chunks |-> chunks,
                       pos |-> chunk_begin_pos ]
                ELSE IF KeepChunk(chunk_type)
                THEN [ ok |-> TRUE, slices |-> s3,
                       chunks |-> MapInsert(chunks, chunk_type,
                                     ChunkData(file_bytes, chunk_data_pos,
                                               chunk_data_length)),
                       pos |-> chunk_begin_pos + chunk_complete_length ]
                ELSE [ ok |-> TRUE, slices |-> s2, chunks |-> chunks,
                       pos |-> chunk_begin_pos + chunk_complete_length ]

\* the whole loop, lines 144-185, from a chunk position on
RECURSIVE ScanLoop(_, _, _)
ScanLoop(file_bytes, chunk_begin_pos, chunks) ==
    IF ~(chunk_begin_pos < Len(file_bytes))
    THEN [ ok |-> TRUE, chunks |-> chunks ]
    ELSE LET r == ScanChunk(file_bytes, chunk_begin_pos, chunks)
         IN  IF r.ok THEN ScanLoop(file_bytes, r.pos, r.chunks)
             ELSE [ ok |-> FALSE, chunks |-> chunks ]

\* png_extract_chunks_to_copy as a function of the file's bytes
png_extract_chunks_to_copy(file_bytes) ==
    IF CheckHeader(file_bytes).ok
    THEN ScanLoop(file_bytes, Len(PNG_HEADER), EmptyMap)
    ELSE [ ok |-> FALSE, chunks |-> EmptyMap ]

(***************************************************************************)
(* Input streams of the scanner: a signature, a sequence of chunks from a  *)
(* menu, trailing bytes.  A chunk is described by its type, its data, the  *)
(* four bytes of its length field and its CRC bytes.                       *)
(***************************************************************************)
\* a 9-byte pHYs payload: u32 x, u32 y, u8 unit
PhysPayload(x, y, unit) == U32Bytes(x) \o U32Bytes(y) \o << unit >>

\* the fields of a 9-byte pHYs payload
PhysX(payload) == U32BE(SubSeq(payload, 1, 4))
PhysY(payload) == U32BE(SubSeq(payload, 5, 8))
PhysUnit(payload) == payload[9]

Crc0 == << 0, 0, 0, 0 >>

ChunkBytes(c) == c.decl \o c.type \o c.data \o c.crc

Chunk(type, data) ==
    [ type |-> type, data |-> data, decl |-> U32Bytes(Len(data)), crc |-> Crc0 ]

\* a whole sRGB chunk, used as the data of another chunk
EmbeddedChunk == ChunkBytes(Chunk(Tag_sRGB, << 9 >>))

GoodChunks ==
    { Chunk(Tag_IHDR, << 1 >>),
      Chunk(Tag_gAMA, << 0, 1 >>),
      Chunk(Tag_pHYs, PhysPayload(2835, 2835, 1)),
      Chunk(Tag_pHYs, PhysPayload(11811, 11811, 1)),
      Chunk(Tag_sRGB, << 0 >>),
      Chunk(Tag_cHRM, << 5 >>),
      Chunk(Tag_iCCP, << >>),
      Chunk(Tag_IDAT, EmbeddedChunk),
      Chunk(Tag_IEND, << >>) }

BadChunks ==
    { \* the length field declares one byte more than the chunk has
      [ Chunk(Tag_gAMA, << 0, 1 >>) EXCEPT !.decl = U32Bytes(7) ],
      \* the largest length a u32 holds
      [ Chunk(Tag_sRGB, << 0 >>) EXCEPT !.decl = << 255, 255, 255, 255 >> ],
      \* a chunk type that is not UTF-8
      Chunk(Tag_Bad, << 1 >>) }

ChunkMenu == GoodChunks \cup BadChunks

RECURSIVE SeqsUpTo(_, _)
SeqsUpTo(S, n) ==
    IF n = 0 THEN { << >> }
    ELSE LET shorter == SeqsUpTo(S, n - 1)
         IN  shorter \cup { Append(s, x) : s \in { t \in shorter : Len(t) = n - 1 }, x \in S }

RECURSIVE Flatten(_)
Flatten(cs) == IF cs = << >> THEN << >> ELSE ChunkBytes(Head(cs)) \o Flatten(Tail(cs))

\* signatures: the right one, one with a corrupted byte
BadSignature == << 137, 80, 78, 71, 13, 10, 26, 13 >>

\* lengths of the run of zero bytes after the last chunk
TrailLens == { 0, 1, 3, 4, 11 }

Zeros(n) == [ i \in 1..n |-> 0 ]

\* the bytes of a described stream; cut > 0 keeps only the first cut - 1 bytes
StreamBytes(d) ==
    LET all == d.sig \o Flatten(d.chunks) \o Zeros(d.trail)
    IN  IF d.cut = 0 THEN all ELSE SubSeq(all, 1, d.cut - 1)

StreamDescriptors ==
    { [ sig |-> PNG_HEADER, chunks |-> cs, trail |-> t, cut |-> 0 ] :
        cs \in SeqsUpTo(ChunkMenu, MaxChunks), t \in TrailLens }
    \cup { [ sig |-> BadSignature, chunks |-> cs, trail |-> 0, cut |-> 0 ] :
        cs \in SeqsUpTo(GoodChunks, 1) }
    \* streams of 8 bytes or fewer: the signature cut short
    \cup { [ sig |-> PNG_HEADER, chunks |-> << >>, trail |-> 0, cut |-> k ] : k \in 1..8 }

\* a described stream that is a signature and at least one well-formed chunk
WellFormed(d) ==
    /\ d.sig = PNG_HEADER
    /\ d.trail = 0
    /\ d.cut = 0
    /\ Len(d.chunks) >= 1
    /\ \A i \in 1..Len(d.chunks) :
          /\ d.chunks[i].decl = U32Bytes(Len(d.chunks[i].data))
          /\ IsUtf8(d.chunks[i].type)

(***************************************************************************)
(* Bitmaps and the compositing phase of create_pattern_png.  A bitmap is   *)
(* [width, height, data], data row-major; pixel values are numbers.        *)
(***************************************************************************)
\* Bitmap::new: a bitmap of default (zero) pixels
BitmapNew(width, height) ==
    [ width |-> width, height |-> height, data |-> [ i \in 1..(width * height) |-> 0 ] ]

\* Bitmap::get(x, y), called at line 236
BitmapGet(bitmap, x, y) == bitmap.data[x + y * bitmap.width + 1]

\* a source bitmap whose pixels are all different (and none the default)
SourceBitmap(width, height) ==
    [ width |-> width, height |-> height, data |-> [ i \in 1..(width * height) |-> i ] ]

\* a copy_pixels that forgets the chunk's offset
PixelForIndexNoOffset(input_image, output_image_width, start_index, index) ==
    LET output_x == index % output_image_width
        output_y == index \div output_image_width
    IN  BitmapGet(input_image, output_x % input_image.width, output_y % input_image.height)

\* lines 230-236: the pixel copy_pixels stores at output_image_buffer[index]
PixelForIndex(input_image, output_image_width, start_index, index) ==
    LET output_x == (index + start_index) % output_image_width
        output_y == (index + start_index) \div output_image_width
        input_x == output_x % input_image.width
        input_y == output_y % input_image.height
    IN  BitmapGet(input_image, input_x, input_y)

\* a chunking that yields one chunk even for an empty buffer
NumChunksAtLeastOne(n, size) == IF n = 0 THEN 1 ELSE (n + size - 1) \div size

\* par_chunks_mut(chunk_size) over a buffer of n elements: the number of
\* chunks, and the buffer range [ChunkBase, ChunkBase + ChunkLen) of chunk k
NumChunks(n, size) == (n + size - 1) \div size

ChunkBase(k, size) == k * size

\* chunks that each run one element into the next one
ChunkLenOverlapping(k, n, size) == Min(size + 1, n - k * size)

ChunkLen(k, n, size) == Min(size, n - k * size)

\* a start index that is the chunk's number, not its offset
StartIndexUnscaled(chunk_index, size) == chunk_index

\* line 334
StartIndex(chunk_index, size) == chunk_index * size

(***************************************************************************)
(* f64.  A value is [k, n, d]: k = "fin" is the rational n / d in lowest   *)
(* terms with d > 0; k = "inf" is the infinity of sign n; k = "nan" is NaN.*)
(***************************************************************************)
Abs(i) == IF i < 0 THEN -i ELSE i

Sign(i) == IF i < 0 THEN -1 ELSE IF i = 0 THEN 0 ELSE 1

RECURSIVE Gcd(_, _)
Gcd(a, b) == IF b = 0 THEN a ELSE Gcd(b, a % b)

NaN == [ k |-> "nan", n |-> 0, d |-> 0 ]

Inf(sign) == [ k |-> "inf", n |-> sign, d |-> 0 ]

\* the rational n / d, d # 0
Fin(n, d) ==
    LET g == Gcd(Abs(n), Abs(d))
    IN  [ k |-> "fin", n |-> Sign(d) * (n \div g), d |-> Abs(d) \div g ]

F(i) == Fin(i, 1)

is_nan(a) == a.k = "nan"

\* a == b on f64: NaN equals nothing
FEq(a, b) == ~is_nan(a) /\ ~is_nan(b) /\ a = b

\* a < b on f64
FLt(a, b) ==
    /\ ~is_nan(a) /\ ~is_nan(b)
    /\ IF a.k = "inf" THEN a.n < 0 /\ b # a
       ELSE IF b.k = "inf" THEN b.n > 0
       ELSE a.n * b.d < b.n * a.d

\* a * b
FMul(a, b) ==
    IF is_nan(a) \/ is_nan(b) THEN NaN
    ELSE IF a.k = "inf" \/ b.k = "inf"
         THEN IF a.n = 0 \/ b.n = 0 THEN NaN ELSE Inf(Sign(a.n) * Sign(b.n))
    ELSE LET g1 == Gcd(Abs(a.n), b.d)
             g2 == Gcd(Abs(b.n), a.d)
         IN  Fin((a.n \div g1) * (b.n \div g2), (a.d \div g2) * (b.d \div g1))

\* a / b
FDiv(a, b) ==
    IF is_nan(a) \/ is_nan(b) THEN NaN
    ELSE IF a.k = "inf"
         THEN IF b.k = "inf" THEN NaN
              ELSE Inf(a.n * (IF b.n < 0 THEN -1 ELSE 1))
    ELSE IF b.k = "inf" THEN F(0)
    ELSE IF b.n = 0
         THEN IF a.n = 0 THEN NaN ELSE Inf(Sign(a.n))
    ELSE FMul(a, Fin(b.d, b.n))

\* a - b, for finite a and b
FSubFin(a, b) == Fin(a.n * b.d - b.n * a.d, a.d * b.d)

\* the integer nearest to the finite a, halves away from zero (f64::round)
RoundFin(a) ==
    LET q == (2 * Abs(a.n) + a.d) \div (2 * a.d)
    IN  Sign(a.n) * q

\* f64::round
FRound(a) == IF a.k = "fin" THEN F(RoundFin(a)) ELSE a

I32_MAX == 2147483647
I32_MIN == -2147483647 - 1

\* "value as i32".  A value outside i32, an infinity or NaN saturates (NaN to
\* 0) with the compilers that define the cast, and is undefined behaviour
\* with the older ones: every i32 of a small set is a possible outcome.
AsI32(a) ==
    IF a.k = "fin" /\ a.d = 1 /\ a.n >= I32_MIN /\ a.n <= I32_MAX
    THEN { a.n }
    ELSE { I32_MIN, 0, I32_MAX }

(***************************************************************************)
(* Unit conversion, lines 23-69.                                           *)
(***************************************************************************)
millimeter_in_meter(millimeter) == FMul(millimeter, FDiv(F(1), F(1000)))

meter_in_millimeter(meter) == FMul(meter, F(1000))

\* 25.4
F25_4 == Fin(254, 10)

millimeter_in_inch(millimeter) == FMul(millimeter, FDiv(F(1), F25_4))

inch_in_millimeter(inch) == FMul(inch, F25_4)

meter_in_inch(meter) == millimeter_in_inch(meter_in_millimeter(meter))

pixel_per_meter_in_pixel_per_inch(pixels_per_meter) ==
    FDiv(pixels_per_meter, meter_in_inch(F(1)))

\* a conversion that multiplies by the millimeters of an inch
pixel_per_inch_times_inch_in_millimeter(pixels_per_inch) ==
    FMul(pixels_per_inch, inch_in_millimeter(F(1)))

pixel_per_inch_in_pixel_per_millimeter(pixels_per_inch) ==
    FDiv(pixels_per_inch, inch_in_millimeter(F(1)))

(***************************************************************************)
(* Text.  A string is a sequence of one-character strings.                 *)
(***************************************************************************)
DigitChars == << "0", "1", "2", "3", "4", "5", "6", "7", "8", "9" >>

IsDigit(c) == \E i \in 1..10 : DigitChars[i] = c

DigitValue(c) == (CHOOSE i \in 1..10 : DigitChars[i] = c) - 1

RECURSIVE NatChars(_)
\* the decimal digits of a natural number
NatChars(n) ==
    IF n < 10 THEN << DigitChars[n + 1] >>
    ELSE Append(NatChars(n \div 10), DigitChars[(n % 10) + 1])

IntChars(i) == IF i < 0 THEN << "-" >> \o NatChars(-i) ELSE NatChars(i)

RECURSIVE DigitsValue(_)
\* the number a run of digits denotes
DigitsValue(cs) ==
    IF cs = << >> THEN 0
    ELSE DigitsValue(SubSeq(cs, 1, Len(cs) - 1)) * 10 + DigitValue(cs[Len(cs)])

Pow10(n) == IF n = 0 THEN 1 ELSE IF n = 1 THEN 10 ELSE IF n = 2 THEN 100 ELSE 1000

AllDigits(cs) == \A i \in 1..Len(cs) : IsDigit(cs[i])

\* text.parse::<f64>().ok(): [some, value].  Covers the decimal forms
\* [+-]digits[.digits] and [+-].digits with at most three decimals, and the
\* words NaN and inf; every other text of the model is rejected.
ParseF64(text) ==
    LET none == [ some |-> FALSE, value |-> NaN ]
        signed == Len(text) >= 1 /\ text[1] \in { "-", "+" }
        sign == IF signed /\ text[1] = "-" THEN -1 ELSE 1
        body == IF signed THEN Tail(text) ELSE text
        dots == { i \in 1..Len(body) : body[i] = "." }
    IN  IF text = << "N", "a", "N" >> THEN [ some |-> TRUE, value |-> NaN ]
        ELSE IF body = << "i", "n", "f" >> THEN [ some |-> TRUE, value |-> Inf(sign) ]
        ELSE IF body = << >> \/ Cardinality(dots) > 1 THEN none
        ELSE IF dots = {}
             THEN IF AllDigits(body)
                  THEN [ some |-> TRUE, value |-> F(sign * DigitsValue(body)) ]
                  ELSE none
        ELSE LET p == CHOOSE i \in dots : TRUE
                 whole == SubSeq(body, 1, p - 1)
                 frac == SubSeq(body, p + 1, Len(body))
             IN  IF /\ AllDigits(whole) /\ AllDigits(frac)
                    /\ Len(whole) + Len(frac) >= 1 /\ Len(frac) <= 3
                 THEN [ some |-> TRUE,
                        value |-> Fin(sign * (DigitsValue(whole) * Pow10(Len(frac))
                                              + DigitsValue(frac)),
                                      Pow10(Len(frac))) ]
                 ELSE none

\* format!("{:.2}", value) for a finite value: two decimals, halves to even
Format2(a) ==
    LET num == Abs(a.n) * 100
        q == num \div a.d
        r == num % a.d
        h == IF 2 * r > a.d \/ (2 * r = a.d /\ q % 2 = 1) THEN q + 1 ELSE q
        whole == h \div 100
        cents == h % 100
    IN  (IF a.n < 0 THEN << "-" >> ELSE << >>)
        \o NatChars(whole) \o << "." >>
        \o << DigitChars[(cents \div 10) + 1], DigitChars[(cents % 10) + 1] >>

\* lines 468-474
pretty_print_float(value) ==
    IF is_nan(value) THEN << "N", "a", "N" >>
    ELSE IF value.k = "inf"
         THEN (IF value.n < 0 THEN << "-" >> ELSE << >>) \o << "i", "n", "f" >>
    ELSE LET rounded == FRound(value)
             diff == FSubFin(value, rounded)
         IN  IF FLt(Fin(Abs(diff.n), diff.d), Fin(1, 100))
             THEN IntChars(rounded.n)
             ELSE Format2(value)

(***************************************************************************)
(* Image::new and what it calls.                                           *)
(***************************************************************************)
\* a get_ppi_from_png_metadata that never looks at the unit specifier
get_ppi_ignoring_unit(metadata_map) ==
    IF Tag_pHYs \in DOMAIN metadata_map /\ Len(metadata_map[Tag_pHYs]) >= 9
    THEN LET metadata == metadata_map[Tag_pHYs]
             pixel_per_unit_x == U32BE(SubSeq(metadata, 1, 4))
             pixel_per_unit_y == U32BE(SubSeq(metadata, 5, 8))
         IN  IF pixel_per_unit_x # pixel_per_unit_y
             THEN [ ok |-> TRUE, some |-> FALSE, ppi |-> NaN ]
             ELSE [ ok |-> TRUE, some |-> TRUE,
                    ppi |-> pixel_per_meter_in_pixel_per_inch(F(pixel_per_unit_x)) ]
    ELSE [ ok |-> Tag_pHYs \notin DOMAIN metadata_map, some |-> FALSE, ppi |-> NaN ]

\* lines 271-313: [ok, some, ppi]; ok = FALSE: the expect of line 281 panicked
get_ppi_from_png_metadata(metadata_map) ==
    IF Tag_pHYs \in DOMAIN metadata_map
    THEN LET metadata == metadata_map[Tag_pHYs]
         IN  IF Len(metadata) < 9
             THEN [ ok |-> FALSE, some |-> FALSE, ppi |-> NaN ]
             ELSE LET pixel_per_unit_x == U32BE(SubSeq(metadata, 1, 4))
                      pixel_per_unit_y == U32BE(SubSeq(metadata, 5, 8))
                      unit_is_meter == metadata[9]
                      ppi_x == pixel_per_meter_in_pixel_per_inch(F(pixel_per_unit_x))
                  IN  IF unit_is_meter # 1
                      THEN [ ok |-> TRUE, some |-> FALSE, ppi |-> NaN ]
                      ELSE IF pixel_per_unit_x # pixel_per_unit_y
                      THEN [ ok |-> TRUE, some |-> FALSE, ppi |-> NaN ]
                      ELSE [ ok |-> TRUE, some |-> TRUE, ppi |-> ppi_x ]
    ELSE [ ok |-> TRUE, some |-> FALSE, ppi |-> NaN ]

\* The files a path can name: the bytes std::fs::read returns, and what
\* load_bitmap makes of the file (decodes = FALSE: it panics).  The bitmap
\* decoder is library code; the malformed files below are taken to pass it,
\* so that the checks of png_extract_chunks_to_copy and of
\* get_ppi_from_png_metadata decide the outcome of Image::new.
PngFile(chunk_seq, width, height) ==
    [ bytes |-> PNG_HEADER \o Flatten(chunk_seq), decodes |-> TRUE,
      width |-> width, height |-> height ]

C_IHDR == Chunk(Tag_IHDR, << 1 >>)
C_IEND == Chunk(Tag_IEND, << >>)

GoodFileNames == { "plain", "print300", "zerodensity" }

MalformedFileNames == { "badsig", "truncated", "badtype", "shortphys" }

FileNames == GoodFileNames \cup MalformedFileNames \cup { "notanimage" }

FileOf(name) ==
    CASE name = "plain" ->
            PngFile(<< C_IHDR, Chunk(Tag_gAMA, << 0, 1 >>), C_IEND >>, 3, 2)
      [] name = "print300" ->
            PngFile(<< C_IHDR, Chunk(Tag_pHYs, PhysPayload(11811, 11811, 1)), C_IEND >>,
                    100, 100)
      [] name = "zerodensity" ->
            PngFile(<< C_IHDR, Chunk(Tag_pHYs, PhysPayload(0, 0, 1)), C_IEND >>, 2, 2)
      [] name = "badsig" ->
            [ PngFile(<< C_IHDR, C_IEND >>, 2, 2) EXCEPT
                !.bytes = BadSignature \o Flatten(<< C_IHDR, C_IEND >>) ]
      [] name = "truncated" ->
            PngFile(<< C_IHDR, [ Chunk(Tag_gAMA, << 0, 1 >>) EXCEPT !.decl = U32Bytes(7) ] >>,
                    2, 2)
      [] name = "badtype" ->
            PngFile(<< C_IHDR, Chunk(Tag_Bad, << 1 >>), C_IEND >>, 2, 2)
      [] name = "shortphys" ->
            PngFile(<< C_IHDR, Chunk(Tag_pHYs, << 0, 0, 11, 19, 0, 0, 11, 19 >>), C_IEND >>,
                    2, 2)
      [] name = "notanimage" ->
            [ bytes |-> << 1, 2, 3 >>, decodes |-> FALSE, width |-> 0, height |-> 0 ]

NoImage ==
    [ some |-> FALSE, filepath |-> "", width |-> 0, height |-> 0,
      png_metadata |-> EmptyMap, ppi_some |-> FALSE, ppi |-> NaN ]

\* lines 355-367: [ok, image]; ok = FALSE: load_bitmap, the scanner or
\* get_ppi_from_png_metadata panicked
ImageNew(filepath) ==
    LET file == FileOf(filepath)
        scanned == png_extract_chunks_to_copy(file.bytes)
        ppi == get_ppi_from_png_metadata(scanned.chunks)
    IN  IF ~file.decodes \/ ~scanned.ok \/ ~ppi.ok
        THEN [ ok |-> FALSE, image |-> NoImage ]
        ELSE [ ok |-> TRUE,
               image |-> [ some |-> TRUE, filepath |-> filepath,
                           width |-> file.width, height |-> file.height,
                           png_metadata |-> scanned.chunks,
                           ppi_some |-> ppi.some, ppi |-> ppi.ppi ] ]

\* Image::new on every file of the model
ImageNewOf == [ filepath \in FileNames |-> ImageNew(filepath) ]

(***************************************************************************)
(* RepeatyGui.  The struct is a record; a method is an operator from the   *)
(* struct (and its arguments) to the struct it leaves.                     *)
(***************************************************************************)
\* lines 528-549
RepeatyGuiLiteral ==
    [ image |-> NoImage,
      input_image_pixels_per_millimeter |-> F(0),
      input_image_pixel_width |-> F(0),
      input_image_pixel_height |-> F(0),
      output_image_pixel_width |-> F(0),
      output_image_pixel_height |-> F(0),
      repeat_x |-> F(0),
      repeat_y |-> F(0),
      dim_x |-> F(0),
      dim_y |-> F(0),
      repeat_x_text |-> << >>,
      repeat_y_text |-> << >>,
      dim_x_text |-> << >>,
      dim_y_text |-> << >>,
      process_state |-> "Idle" ]

\* a repeat setter that scales both axes by the value
set_repeat_count_x_uniform(self, value) ==
    LET dim_x == FDiv(FMul(value, self.input_image_pixel_width),
                      self.input_image_pixels_per_millimeter)
        dim_y == FDiv(FMul(value, self.input_image_pixel_height),
                      self.input_image_pixels_per_millimeter)
    IN  [ self EXCEPT
            !.repeat_x = value,
            !.dim_x = dim_x,
            !.dim_x_text = pretty_print_float(dim_x),
            !.output_image_pixel_width = FMul(value, self.input_image_pixel_width),
            !.repeat_y = value,
            !.dim_y = dim_y,
            !.output_image_pixel_height = FMul(value, self.input_image_pixel_height),
            !.process_state = "Idle" ]

\* lines 583-591
set_repeat_count_x(self, value) ==
    LET dim_x == FDiv(FMul(value, self.input_image_pixel_width),
                      self.input_image_pixels_per_millimeter)
    IN  [ self EXCEPT
            !.repeat_x = value,
            !.dim_x = dim_x,
            !.dim_x_text = pretty_print_float(dim_x),
            !.output_image_pixel_width = FMul(value, self.input_image_pixel_width),
            !.process_state = "Idle" ]

\* lines 593-601
set_repeat_count_y(self, value) ==
    LET dim_y == FDiv(FMul(value, self.input_image_pixel_height),
                      self.input_image_pixels_per_millimeter)
    IN  [ self EXCEPT
            !.repeat_y = value,
            !.dim_y = dim_y,
            !.dim_y_text = pretty_print_float(dim_y),
            !.output_image_pixel_height = FMul(value, self.input_image_pixel_height),
            !.process_state = "Idle" ]

\* a dimension setter that leaves the density out of the repeat count
set_dimension_millimeter_x_without_density(self, value) ==
    LET repeat_x == FDiv(value, self.input_image_pixel_width)
    IN  [ self EXCEPT
            !.dim_x = value,
            !.repeat_x = repeat_x,
            !.repeat_x_text = pretty_print_float(repeat_x),
            !.output_image_pixel_width = FMul(repeat_x, self.input_image_pixel_width),
            !.process_state = "Idle" ]

\* lines 603-611
set_dimension_millimeter_x(self, value) ==
    LET repeat_x == FDiv(FMul(value, self.input_image_pixels_per_millimeter),
                         self.input_image_pixel_width)
    IN  [ self EXCEPT
            !.dim_x = value,
            !.repeat_x = repeat_x,
            !.repeat_x_text = pretty_print_float(repeat_x),
            !.output_image_pixel_width = FMul(repeat_x, self.input_image_pixel_width),
            !.process_state = "Idle" ]

\* lines 613-621
set_dimension_millimeter_y(self, value) ==
    LET repeat_y == FDiv(FMul(value, self.input_image_pixels_per_millimeter),
                         self.input_image_pixel_height)
    IN  [ self EXCEPT
            !.dim_y = value,
            !.repeat_y = repeat_y,
            !.repeat_y_text = pretty_print_float(repeat_y),
            !.output_image_pixel_height = FMul(repeat_y, self.input_image_pixel_height),
            !.process_state = "Idle" ]

\* lines 567-574: the condition under which load_image sets the defaults
NeedsDefaults(self) ==
    \/ FEq(self.repeat_x, F(0)) \/ FEq(self.repeat_y, F(0))
    \/ FEq(self.dim_x, F(0)) \/ FEq(self.dim_y, F(0))
    \/ is_nan(self.repeat_x) \/ is_nan(self.repeat_y)
    \/ is_nan(self.dim_x) \/ is_nan(self.dim_y)

\* lines 560-580: load_image once Image::new has returned image
load_image_with(self, image) ==
    LET s1 == [ self EXCEPT
                  !.input_image_pixels_per_millimeter =
                      pixel_per_inch_in_pixel_per_millimeter(
                          IF image.ppi_some THEN image.ppi ELSE F(72)),
                  !.input_image_pixel_width = F(image.width),
                  !.input_image_pixel_height = F(image.height),
                  !.image = image ]
    IN  IF NeedsDefaults(s1)
        THEN LET s2 == set_repeat_count_y(set_repeat_count_x(s1, F(5)), F(5))
             IN  [ s2 EXCEPT
                     !.repeat_x_text = pretty_print_float(s2.repeat_x),
                     !.repeat_y_text = pretty_print_float(s2.repeat_y) ]
        ELSE s1

(***************************************************************************)
(* State.                                                                  *)
(***************************************************************************)
VARIABLES
    \* ---- scanner (SpecScan)
    input,            \* the description the stream was built from (ghost)
    file_bytes,       \* std::fs::read(image_filepath)
    chunk_begin_pos,
    chunks,           \* the HashMap being filled
    scan_pc,          \* "header", "loop", "done", "panic"
    slices,           \* every slice of file_bytes taken so far (ghost)
    iterations,       \* loop iterations run so far (ghost)
    \* ---- create_pattern_png (SpecPattern)
    input_image,      \* image: &Bitmap
    png_metadata,     \* the preserved chunks handed over
    result_image,     \* the output bitmap
    chunk_size,
    num_threads,      \* threads of the rayon pool
    progress,         \* per chunk: how many of its elements copy_pixels has stored
    writers,          \* per output index: the chunks that stored to it, in order (ghost)
    pat_pc,           \* "idle", "compositing", "writing", "done", "panic"
    enc_pc,           \* the statement encode_png is at
    enc_todo,         \* chunk types the for loop of encode_png has yet to visit
    enc_log,          \* what the encoder was asked to write, in order (ghost)
    \* ---- RepeatyGui (SpecGui)
    gui,              \* the RepeatyGui struct
    gui_pc,           \* "new": in RepeatyGui::new; "events": between events;
                      \* "running": in create_pattern_png; "panicked"
    last_load,        \* the file of the latest load_image call and how it ended (ghost)
    pattern_call,     \* the arguments of the create_pattern_png call in flight
    history,          \* how many images have been loaded (0, 1, or 2 for two
                      \* and more) and whether an edit event has been handled
                      \* (ghost)
    \* one call of a function on its own (SpecFn)
    fn_call,          \* [fn, arg]: the function called and its argument
    fn_ret,           \* what the function has returned (or the struct it works on)
    fn_pc             \* "ready", "repeat_set" (between the two setters),
                      \* "returned", "panicked"

scanVars == << input, file_bytes, chunk_begin_pos, chunks, scan_pc, slices, iterations >>

patVars == << input_image, png_metadata, result_image, chunk_size, num_threads,
              progress, writers, pat_pc, enc_pc, enc_todo, enc_log >>

guiVars == << gui, gui_pc, last_load, pattern_call, history >>

fnVars == << fn_call, fn_ret, fn_pc >>

vars == << scanVars, patVars, guiVars, fnVars >>

\* the variables of a specification that does not use them
ScanIdle ==
    /\ input = [ sig |-> << >>, chunks |-> << >>, trail |-> 0, cut |-> 0 ]
    /\ file_bytes = << >>
    /\ chunk_begin_pos = 0
    /\ chunks = EmptyMap
    /\ scan_pc = "idle"
    /\ slices = {}
    /\ iterations = 0

NoCall ==
    [ called |-> FALSE, result_pixel_width |-> 0, result_pixel_height |-> 0,
      suffix_text |-> << >> ]

NoLoad == [ filepath |-> "", outcome |-> "none" ]

NoHistory == [ loads |-> 0, edits |-> FALSE ]

GuiIdle ==
    /\ gui = RepeatyGuiLiteral
    /\ gui_pc = "idle"
    /\ last_load = NoLoad
    /\ pattern_call = NoCall
    /\ history = NoHistory

NoFn == [ fn |-> "none", arg |-> << >> ]

FnIdle ==
    /\ fn_call = NoFn
    /\ fn_ret = << >>
    /\ fn_pc = "idle"

PatternIdle ==
    /\ input_image = BitmapNew(0, 0)
    /\ png_metadata = EmptyMap
    /\ result_image = BitmapNew(0, 0)
    /\ chunk_size = 1
    /\ num_threads = 1
    /\ progress = << >>
    /\ writers = << >>
    /\ pat_pc = "idle"
    /\ enc_pc = "idle"
    /\ enc_todo = {}
    /\ enc_log = << >>

(***************************************************************************)
(* SpecScan: png_extract_chunks_to_copy on every described stream.         *)
(***************************************************************************)
ScanInit ==
    /\ input \in StreamDescriptors
    /\ file_bytes = StreamBytes(input)
    /\ chunk_begin_pos = 0
    /\ chunks = EmptyMap
    /\ scan_pc = "header"
    /\ slices = {}
    /\ iterations = 0
    /\ PatternIdle
    /\ GuiIdle
    /\ FnIdle

ScanHeader ==
    /\ scan_pc = "header"
    /\ LET r == CheckHeader(file_bytes)
       IN  /\ slices' = slices \cup r.slices
           /\ scan_pc' = IF r.ok THEN "loop" ELSE "panic"
           /\ chunk_begin_pos' = IF r.ok THEN Len(PNG_HEADER) ELSE chunk_begin_pos
    /\ UNCHANGED << input, file_bytes, chunks, iterations, patVars, guiVars, fnVars >>

\* a loop that advances by the length of the chunk's data only
ScanIterateByDataLength ==
    /\ scan_pc = "loop"
    /\ chunk_begin_pos < Len(file_bytes)
    /\ LET r == ScanChunk(file_bytes, chunk_begin_pos, chunks)
       IN  /\ slices' = slices \cup r.slices
           /\ chunks' = r.chunks
           /\ chunk_begin_pos' = IF r.ok THEN r.pos - 12 ELSE r.pos
           /\ scan_pc' = IF r.ok THEN "loop" ELSE "panic"
    /\ iterations' = iterations + 1
    /\ UNCHANGED << input, file_bytes, patVars, guiVars, fnVars >>

\* lines 146-183: one iteration of the while loop
ScanIterate ==
    /\ scan_pc = "loop"
    /\ chunk_begin_pos < Len(file_bytes)
    /\ LET r == ScanChunk(file_bytes, chunk_begin_pos, chunks)
       IN  /\ slices' = slices \cup r.slices
           /\ chunks' = r.chunks
           /\ chunk_begin_pos' = r.pos
           /\ scan_pc' = IF r.ok THEN "loop" ELSE "panic"
    /\ iterations' = iterations + 1
    /\ UNCHANGED << input, file_bytes, patVars, guiVars, fnVars >>

ScanReturn ==
    /\ scan_pc = "loop"
    /\ ~(chunk_begin_pos < Len(file_bytes))
    /\ scan_pc' = "done"
    /\ UNCHANGED << input, file_bytes, chunk_begin_pos, chunks, slices, iterations, patVars, guiVars, fnVars >>

ScanNext == ScanHeader \/ ScanIterate \/ ScanReturn

SpecScan == ScanInit /\ [][ScanNext]_vars

\* The scanner runs on one thread that nothing suspends: a step that can be
\* taken is taken.
SpecScanLive == SpecScan /\ WF_vars(ScanNext)

(***************************************************************************)
(* SpecPattern: create_pattern_png.  The compositing phase runs copy_pixels*)
(* on every chunk of par_chunks_mut, at most num_threads chunks at a time, *)
(* one element per step, in any interleaving; for_each returns when every  *)
(* chunk is complete; encode_png follows, one statement per step, each of  *)
(* which may fail.  The source fixes chunk_size at 4 * 1024 * 1024; the    *)
(* model draws it from 1..MaxChunkSize so that small buffers have several  *)
(* chunks.                                                                 *)
(***************************************************************************)
\* the preserved chunk sets handed to the encoder: the first k of a list
MetaList ==
    << << Tag_gAMA, << 0, 1 >> >>,
       << Tag_pHYs, PhysPayload(2835, 2835, 1) >>,
       << Tag_sRGB, << 0 >> >>,
       << Tag_cHRM, << 5 >> >> >>

MetaOption(k) ==
    [ t \in { MetaList[i][1] : i \in 1..k } |->
        (CHOOSE i \in 1..k : MetaList[i][1] = t) ]

MetaMap(k) == [ t \in DOMAIN MetaOption(k) |-> MetaList[MetaOption(k)[t]][2] ]

BufferLen == result_image.width * result_image.height

ChunkIndices == 0..(NumChunks(BufferLen, chunk_size) - 1)

InProgress(k) == progress[k] > 0 /\ progress[k] < ChunkLen(k, BufferLen, chunk_size)

PatternInit ==
    /\ \E w \in 1..MaxSrcDim, h \in 1..MaxSrcDim : input_image = SourceBitmap(w, h)
    /\ \E k \in 0..Min(MaxMeta, Len(MetaList)) : png_metadata = MetaMap(k)
    \* line 322
    /\ \E result_pixel_width \in 0..MaxOutW, result_pixel_height \in 0..MaxOutH :
          result_image = BitmapNew(result_pixel_width, result_pixel_height)
    /\ chunk_size \in 1..MaxChunkSize
    /\ num_threads \in 1..MaxThreads
    /\ progress = [ k \in ChunkIndices |-> 0 ]
    /\ writers = [ i \in 0..(BufferLen - 1) |-> << >> ]
    /\ pat_pc = "compositing"
    /\ enc_pc = "idle"
    /\ enc_todo = {}
    /\ enc_log = << >>
    /\ ScanIdle
    /\ GuiIdle
    /\ FnIdle

\* one iteration of the for loop of copy_pixels, run on chunk chunk_index
CopyPixelsStep(chunk_index) ==
    /\ pat_pc = "compositing"
    /\ progress[chunk_index] < ChunkLen(chunk_index, BufferLen, chunk_size)
    \* a chunk is begun only when a thread is free
    /\ \/ progress[chunk_index] > 0
       \/ Cardinality({ k \in ChunkIndices : InProgress(k) }) < num_threads
    /\ LET index == progress[chunk_index]
           start_index == StartIndex(chunk_index, chunk_size)
           at == ChunkBase(chunk_index, chunk_size) + index
       IN  /\ result_image' =
                [ result_image EXCEPT !.data[at + 1] =
                    PixelForIndex(input_image, result_image.width, start_index, index) ]
           /\ writers' = [ writers EXCEPT ![at] = Append(@, chunk_index) ]
    /\ progress' = [ progress EXCEPT ![chunk_index] = @ + 1 ]
    /\ UNCHANGED << input_image, png_metadata, chunk_size, num_threads, pat_pc,
                    enc_pc, enc_todo, enc_log, scanVars, guiVars, fnVars >>

\* a compositing block that goes on to encode_png with chunks unfinished
CompositingJoinEarly ==
    /\ pat_pc = "compositing"
    /\ pat_pc' = "writing"
    /\ enc_pc' = "create"
    /\ UNCHANGED << input_image, png_metadata, result_image, chunk_size, num_threads,
                    progress, writers, enc_todo, enc_log, scanVars, guiVars, fnVars >>

\* for_each returns: every chunk is complete.  encode_png is called.
CompositingJoin ==
    /\ pat_pc = "compositing"
    /\ \A k \in ChunkIndices : progress[k] = ChunkLen(k, BufferLen, chunk_size)
    /\ pat_pc' = "writing"
    /\ enc_pc' = "create"
    /\ UNCHANGED << input_image, png_metadata, result_image, chunk_size, num_threads,
                    progress, writers, enc_todo, enc_log, scanVars, guiVars, fnVars >>

EncUnchanged ==
    UNCHANGED << input_image, png_metadata, result_image, chunk_size, num_threads,
                 progress, writers, scanVars, guiVars, fnVars >>

LogEntry(op, tag, data) == [ op |-> op, tag |-> tag, data |-> data ]

\* line 254: File::create(output_filepath)?
EncCreateFile ==
    /\ pat_pc = "writing" /\ enc_pc = "create"
    /\ enc_pc' = "set_size"
    /\ enc_log' = Append(enc_log, LogEntry("create", << >>, << >>))
    /\ UNCHANGED << pat_pc, enc_todo >>
    /\ EncUnchanged

\* line 258: header.set_size(image_width, image_height)?
EncSetSize ==
    /\ pat_pc = "writing" /\ enc_pc = "set_size"
    /\ enc_pc' = "set_color"
    /\ UNCHANGED << pat_pc, enc_todo, enc_log >>
    /\ EncUnchanged

\* line 259: header.set_color(TruecolorAlpha, 8)?
EncSetColor ==
    /\ pat_pc = "writing" /\ enc_pc = "set_color"
    /\ enc_pc' = "write_header"
    /\ UNCHANGED << pat_pc, enc_todo, enc_log >>
    /\ EncUnchanged

\* line 261: encoder.write_header(&header)?; the for loop begins
EncWriteHeader ==
    /\ pat_pc = "writing" /\ enc_pc = "write_header"
    /\ enc_log' = Append(enc_log,
          LogEntry("header", << >>, << result_image.width, result_image.height >>))
    /\ enc_todo' = DOMAIN png_metadata
    /\ enc_pc' = "write_chunk"
    /\ UNCHANGED pat_pc
    /\ EncUnchanged

\* an encoder that writes every chunk under the pHYs tag
ChunkEntryOneTag(chunktype, chunk) == LogEntry("chunk", Tag_pHYs, chunk)

\* line 263: the arguments of encoder.write_chunk
ChunkEntry(chunktype, chunk) == LogEntry("chunk", chunktype, chunk)

\* lines 262-264: one iteration of the loop over the HashMap, in its order
EncWriteChunk ==
    /\ pat_pc = "writing" /\ enc_pc = "write_chunk"
    /\ \E chunktype \in enc_todo :
          /\ enc_log' = Append(enc_log, ChunkEntry(chunktype, png_metadata[chunktype]))
          /\ enc_todo' = enc_todo \ {chunktype}
    /\ UNCHANGED << pat_pc, enc_pc >>
    /\ EncUnchanged

\* line 265: encoder.write_image_rows(bytes)?
EncWriteImageRows ==
    /\ pat_pc = "writing" /\ enc_pc = "write_chunk"
    /\ enc_todo = {}
    /\ enc_log' = Append(enc_log, LogEntry("rows", << >>, result_image.data))
    /\ enc_pc' = "finish"
    /\ UNCHANGED << pat_pc, enc_todo >>
    /\ EncUnchanged

\* lines 266-268 and 341: encoder.finish()?; Ok(()); create_pattern_png returns
EncFinish ==
    /\ pat_pc = "writing" /\ enc_pc = "finish"
    /\ enc_log' = Append(enc_log, LogEntry("finish", << >>, << >>))
    /\ enc_pc' = "ok"
    /\ pat_pc' = "done"
    /\ UNCHANGED enc_todo
    /\ EncUnchanged

\* any ? of encode_png returns the error; the expect of line 341 panics
EncFail ==
    /\ pat_pc = "writing"
    /\ enc_pc \in { "create", "set_size", "set_color", "write_header", "write_chunk", "finish" }
    /\ enc_pc' = "err"
    /\ pat_pc' = "panic"
    /\ UNCHANGED << enc_todo, enc_log >>
    /\ EncUnchanged

PatternNext ==
    \/ \E chunk_index \in ChunkIndices : CopyPixelsStep(chunk_index)
    \/ CompositingJoin
    \/ EncCreateFile
    \/ EncSetSize
    \/ EncSetColor
    \/ EncWriteHeader
    \/ EncWriteChunk
    \/ EncWriteImageRows
    \/ EncFail
    \/ EncFinish

SpecPattern == PatternInit /\ [][PatternNext]_vars

(***************************************************************************)
(* SpecGui: RepeatyGui::new, then Application::update on any sequence of   *)
(* events.  get_image_filepath_from_commandline names a file of unknown    *)
(* content: any file of the model.  A panic ends the process.              *)
(***************************************************************************)
\* the texts a text input can hold after an edit
Texts ==
    { << "0" >>, << "2" >>, << "2", ".", "5" >>, << "-", "1" >>, << "N", "a", "N" >>,
      << "a", "b", "c" >> }

\* text.parse::<f64>().ok() on every text of the model
ParsedText == [ text \in Texts |-> ParseF64(text) ]

GuiInit ==
    /\ gui = RepeatyGuiLiteral
    /\ gui_pc = "new"
    /\ last_load = NoLoad
    /\ pattern_call = NoCall
    /\ history = NoHistory
    /\ ScanIdle
    /\ PatternIdle
    /\ FnIdle

\* lines 558-581: load_image(filepath), Image::new included
LoadImage(filepath) ==
    LET r == ImageNewOf[filepath]
    IN  /\ gui' = IF r.ok THEN load_image_with(gui, r.image) ELSE gui
        /\ gui_pc' = IF r.ok THEN "events" ELSE "panicked"
        /\ last_load' = [ filepath |-> filepath,
                          outcome |-> IF r.ok THEN "ok" ELSE "panic" ]
        /\ history' = IF r.ok
                      THEN [ history EXCEPT !.loads = IF @ = 0 THEN 1 ELSE 2 ]
                      ELSE history
        /\ UNCHANGED << pattern_call, scanVars, patVars, fnVars >>

\* lines 551-555: the rest of RepeatyGui::new
New(filepath) ==
    /\ gui_pc = "new"
    /\ LoadImage(filepath)

\* lines 688-692
FileDropped(filepath) ==
    /\ gui_pc = "events"
    /\ LoadImage(filepath)

EditUnchanged ==
    /\ history' = [ history EXCEPT !.edits = TRUE ]
    /\ UNCHANGED << gui_pc, last_load, pattern_call, scanVars, patVars, fnVars >>

\* lines 639-644
ChangedRepeatCountX(value_str) ==
    /\ gui_pc = "events"
    /\ LET s1 == [ gui EXCEPT !.repeat_x_text = value_str ]
           value == ParsedText[value_str]
       IN  gui' = IF value.some THEN set_repeat_count_x(s1, value.value) ELSE s1
    /\ EditUnchanged

\* lines 645-650
ChangedRepeatCountY(value_str) ==
    /\ gui_pc = "events"
    /\ LET s1 == [ gui EXCEPT !.repeat_y_text = value_str ]
           value == ParsedText[value_str]
       IN  gui' = IF value.some THEN set_repeat_count_y(s1, value.value) ELSE s1
    /\ EditUnchanged

\* lines 651-656
ChangedDimensionMillimeterX(value_str) ==
    /\ gui_pc = "events"
    /\ LET s1 == [ gui EXCEPT !.dim_x_text = value_str ]
           value == ParsedText[value_str]
       IN  gui' = IF value.some THEN set_dimension_millimeter_x(s1, value.value) ELSE s1
    /\ EditUnchanged

\* an edit handler that takes a text that does not parse as 0
ChangedDimensionMillimeterYOrZero(value_str) ==
    /\ gui_pc = "events"
    /\ LET s1 == [ gui EXCEPT !.dim_y_text = value_str ]
           value == ParsedText[value_str]
       IN  gui' = set_dimension_millimeter_y(s1, IF value.some THEN value.value ELSE F(0))
    /\ EditUnchanged

\* lines 657-662
ChangedDimensionMillimeterY(value_str) ==
    /\ gui_pc = "events"
    /\ LET s1 == [ gui EXCEPT !.dim_y_text = value_str ]
           value == ParsedText[value_str]
       IN  gui' = IF value.some THEN set_dimension_millimeter_y(s1, value.value) ELSE s1
    /\ EditUnchanged

\* line 667, before the cast
OutputWidth(self) == FRound(self.output_image_pixel_width)

\* line 668, before the cast
OutputHeight(self) == FRound(self.output_image_pixel_height)

\* lines 669-675: the suffix of the output file name
suffix_text(self) ==
    << "_", "_" >> \o pretty_print_float(self.repeat_x)
    \o << "x" >> \o pretty_print_float(self.repeat_y)
    \o << "_", "_" >> \o pretty_print_float(self.dim_x)
    \o << "x" >> \o pretty_print_float(self.dim_y)
    \o << "m", "m" >>

\* a start handler that moves the image out of the struct
PressedStartButtonTakingImage ==
    /\ gui_pc = "events"
    /\ IF gui.image.some
       THEN /\ gui' = [ gui EXCEPT !.process_state = "Running", !.image = NoImage ]
            /\ \E output_image_pixel_width \in AsI32(OutputWidth(gui)),
                  output_image_pixel_height \in AsI32(OutputHeight(gui)) :
                  pattern_call' = [ called |-> TRUE,
                                    result_pixel_width |-> output_image_pixel_width,
                                    result_pixel_height |-> output_image_pixel_height,
                                    suffix_text |-> suffix_text(gui) ]
            /\ gui_pc' = "running"
       ELSE UNCHANGED << gui, gui_pc, pattern_call >>
    /\ UNCHANGED << last_load, history, scanVars, patVars, fnVars >>

\* lines 663-684: PressedStartButton up to the call of create_pattern_png
PressedStartButton ==
    /\ gui_pc = "events"
    /\ IF gui.image.some
       THEN /\ gui' = [ gui EXCEPT !.process_state = "Running" ]
            /\ \E output_image_pixel_width \in AsI32(OutputWidth(gui)),
                  output_image_pixel_height \in AsI32(OutputHeight(gui)) :
                  pattern_call' = [ called |-> TRUE,
                                    result_pixel_width |-> output_image_pixel_width,
                                    result_pixel_height |-> output_image_pixel_height,
                                    suffix_text |-> suffix_text(gui) ]
            /\ gui_pc' = "running"
       ELSE UNCHANGED << gui, gui_pc, pattern_call >>
    /\ UNCHANGED << last_load, history, scanVars, patVars, fnVars >>

\* a return from create_pattern_png that forgets the assignment of line 685
CreatePatternReturnsStillRunning ==
    /\ gui_pc = "running"
    /\ gui_pc' = "events"
    /\ pattern_call' = NoCall
    /\ UNCHANGED << gui, last_load, history, scanVars, patVars, fnVars >>

\* lines 684-686: create_pattern_png returns
CreatePatternReturns ==
    /\ gui_pc = "running"
    /\ gui' = [ gui EXCEPT !.process_state = "Finished" ]
    /\ gui_pc' = "events"
    /\ pattern_call' = NoCall
    /\ UNCHANGED << last_load, history, scanVars, patVars, fnVars >>

\* lines 322 and 341: create_pattern_png panics (the bitmap cannot be
\* allocated, or encode_png returned an error)
CreatePatternPanics ==
    /\ gui_pc = "running"
    /\ gui_pc' = "panicked"
    /\ UNCHANGED << gui, pattern_call, last_load, history, scanVars, patVars, fnVars >>

GuiNext ==
    \/ \E filepath \in FileNames : New(filepath)
    \/ \E filepath \in FileNames : FileDropped(filepath)
    \/ \E value_str \in Texts : ChangedRepeatCountX(value_str)
    \/ \E value_str \in Texts : ChangedRepeatCountY(value_str)
    \/ \E value_str \in Texts : ChangedDimensionMillimeterX(value_str)
    \/ \E value_str \in Texts : ChangedDimensionMillimeterY(value_str)
    \/ PressedStartButton
    \/ CreatePatternReturns
    \/ CreatePatternPanics

SpecGui == GuiInit /\ [][GuiNext]_vars

(***************************************************************************)
(* SpecFn: one call of get_ppi_from_png_metadata, of a repeat setter        *)
(* followed by the dimension setter of the same axis, or of                *)
(* pretty_print_float, on every argument of a bounded set.                 *)
(***************************************************************************)
\* pixels per unit and unit specifiers a pHYs payload of the model carries
PhysDensities == { 0, 2835, 11811 }

PhysUnits == { 0, 1, 2 }

\* the maps get_ppi_from_png_metadata is called on: no pHYs entry, every
\* 9-byte payload of the model, and a payload that is one byte short
PpiArgs ==
    { EmptyMap, MapInsert(EmptyMap, Tag_gAMA, << 0, 1 >>) }
    \cup { MapInsert(m, Tag_pHYs, PhysPayload(x, y, u)) :
             m \in { EmptyMap, MapInsert(EmptyMap, Tag_sRGB, << 0 >>) },
             x \in PhysDensities, y \in PhysDensities, u \in PhysUnits }
    \cup { MapInsert(EmptyMap, Tag_pHYs, << 0, 0, 11, 19, 0, 0, 11, 19 >>) }

\* the structs and values the two setters of an axis are called with
SetterDensities == { Fin(360, 127), Fin(11811, 1000), Fin(2835, 1000) }

SetterPixels == { 1, 3, 100 }

SetterRepeats == { F(1), F(5), Fin(5, 2), Fin(1, 3) }

SetterArgs ==
    { [ self |-> [ RepeatyGuiLiteral EXCEPT
                     !.input_image_pixels_per_millimeter = density,
                     !.input_image_pixel_width = F(w),
                     !.input_image_pixel_height = F(h) ],
        value |-> r ] :
        density \in SetterDensities, w \in SetterPixels, h \in SetterPixels,
        r \in SetterRepeats }

\* the values pretty_print_float is called with, in thousandths
PrettyThousandths ==
    { 0, 4, 9, 11, 15, 500, 989, 991, 995, 1000, 1005, 1009, 1011, 1994, 2000,
      2125, 2135, 2500, 5292, 16933, -4, -9, -11, -500, -1005, -2125, -16933 }

PrettyArgs == { Fin(n, 1000) : n \in PrettyThousandths } \cup { NaN, Inf(1), Inf(-1) }

FnCalls ==
    { [ fn |-> "get_ppi_from_png_metadata", arg |-> a ] : a \in PpiArgs }
    \cup { [ fn |-> "set_x", arg |-> a ] : a \in SetterArgs }
    \cup { [ fn |-> "set_y", arg |-> a ] : a \in SetterArgs }
    \cup { [ fn |-> "pretty_print_float", arg |-> a ] : a \in PrettyArgs }

FnInit ==
    /\ fn_call \in FnCalls
    /\ fn_ret = << >>
    /\ fn_pc = "ready"
    /\ ScanIdle
    /\ PatternIdle
    /\ GuiIdle

FnUnchanged == UNCHANGED << fn_call, scanVars, patVars, guiVars >>

\* lines 271-313
CallGetPpi ==
    /\ fn_pc = "ready" /\ fn_call.fn = "get_ppi_from_png_metadata"
    /\ fn_ret' = get_ppi_from_png_metadata(fn_call.arg)
    /\ fn_pc' = IF fn_ret'.ok THEN "returned" ELSE "panicked"
    /\ FnUnchanged

\* lines 583-601: set_repeat_count_x or set_repeat_count_y
CallSetRepeatCount ==
    /\ fn_pc = "ready" /\ fn_call.fn \in { "set_x", "set_y" }
    /\ fn_ret' = IF fn_call.fn = "set_x"
                 THEN set_repeat_count_x(fn_call.arg.self, fn_call.arg.value)
                 ELSE set_repeat_count_y(fn_call.arg.self, fn_call.arg.value)
    /\ fn_pc' = "repeat_set"
    /\ FnUnchanged

\* lines 603-621: the dimension setter of the same axis, called with the
\* dimension the struct now holds
CallSetDimensionMillimeter ==
    /\ fn_pc = "repeat_set"
    /\ fn_ret' = IF fn_call.fn = "set_x"
                 THEN set_dimension_millimeter_x(fn_ret, fn_ret.dim_x)
                 ELSE set_dimension_millimeter_y(fn_ret, fn_ret.dim_y)
    /\ fn_pc' = "returned"
    /\ FnUnchanged

\* lines 468-474
CallPrettyPrintFloat ==
    /\ fn_pc = "ready" /\ fn_call.fn = "pretty_print_float"
    /\ fn_ret' = pretty_print_float(fn_call.arg)
    /\ fn_pc' = "returned"
    /\ FnUnchanged

FnNext ==
    \/ CallGetPpi
    \/ CallSetRepeatCount
    \/ CallSetDimensionMillimeter
    \/ CallPrettyPrintFloat

SpecFn == FnInit /\ [][FnNext]_vars

(***************************************************************************)
(* Properties of png_extract_chunks_to_copy (under SpecScan).              *)
(***************************************************************************)
AllowList == { Tag_cHRM, Tag_gAMA, Tag_iCCP, Tag_pHYs, Tag_sRGB }

C6_SlicesInsideStream ==
    \A s \in slices : 0 <= s[1] /\ s[1] <= s[2] /\ s[2] <= Len(file_bytes)

\* the scanner stopped on a chunk declaring more data than the stream has
C6_WitnessOversized ==
    /\ scan_pc = "panic"
    /\ iterations = 2
    /\ Len(input.chunks) = 2
    /\ input.chunks[2].decl = U32Bytes(7)
    /\ input.trail = 0
    /\ slices # {}

\* C18: when the scanner has returned on a stream of well-formed chunks, the
\* map holds for each of its keys the data of the last chunk of that type in
\* the stream (one entry per type: the map is a function of the type).
C18_LastOccurrenceWins ==
    (WellFormed(input) /\ scan_pc = "done") =>
        \A t \in DOMAIN chunks :
            LET occurrences == { i \in 1..Len(input.chunks) : input.chunks[i].type = t }
                last == CHOOSE i \in occurrences : \A j \in occurrences : j <= i
            IN  chunks[t] = input.chunks[last].data

\* two pHYs chunks with different payloads were scanned
C18_WitnessRepeatedType ==
    /\ WellFormed(input) /\ scan_pc = "done"
    /\ Len(input.chunks) = 2
    /\ input.chunks[1].type = Tag_pHYs /\ input.chunks[2].type = Tag_pHYs
    /\ input.chunks[1].data # input.chunks[2].data
    /\ chunks[Tag_pHYs] = input.chunks[2].data

\* values of a CRC field: zeros, bytes that are not UTF-8, and the bytes of
\* an allow-listed chunk type
CrcValues == { Crc0, << 255, 255, 255, 255 >>, Tag_pHYs }

\* the chunks 1..i of a described stream all declare the length of their
\* data: the last four bytes of chunk i are where the scanner takes the CRC
\* field of a chunk to be
Aligned(d, i) == \A j \in 1..i : d.chunks[j].decl = U32Bytes(Len(d.chunks[j].data))

\* the described streams that differ from d in CRC fields only
CrcVariants(d) ==
    { [ d EXCEPT !.chunks = [ i \in 1..Len(d.chunks) |->
                                [ d.chunks[i] EXCEPT !.crc = f[i] ] ] ] :
        f \in { g \in [ 1..Len(d.chunks) -> CrcValues ] :
                  \A i \in 1..Len(d.chunks) :
                      ~Aligned(d, i) => g[i] = d.chunks[i].crc } }

\* C23: when the scanner has returned or panicked on a stream, it returns or
\* panicks alike on every stream that differs from it only in the CRC bytes
\* of chunks, and when it returns, it returns the same map.
C23_CrcIgnored ==
    scan_pc \in { "done", "panic" } =>
        \A v \in CrcVariants(input) :
            LET r == png_extract_chunks_to_copy(StreamBytes(v))
            IN  /\ r.ok = (scan_pc = "done")
                /\ r.ok => r.chunks = chunks

\* the scanner returned a pHYs payload from a stream of two chunks, of which
\* there are nine that differ in CRC bytes only
C23_WitnessCrcVaried ==
    /\ scan_pc = "done"
    /\ Len(input.chunks) = 2
    /\ Tag_pHYs \in DOMAIN chunks
    /\ Cardinality({ StreamBytes(v) : v \in CrcVariants(input) }) = 9

\* C26: every iteration of the loop either panics (the decode failure) or
\* moves chunk_begin_pos on by 12 bytes or more; chunk_begin_pos never passes
\* the end of the stream, so that 12 bytes of the stream stand for every
\* iteration but a last, failing one; and the scanner comes to return or to
\* panic on every stream.
C26_ScanTerminates ==
    /\ [][ ScanIterate =>
              \/ scan_pc' = "panic"
              \/ chunk_begin_pos' >= chunk_begin_pos + 12 ]_vars
    /\ [](/\ chunk_begin_pos <= Len(file_bytes)
          /\ 12 * iterations <= Len(file_bytes) + 3)
    /\ <>(scan_pc \in { "done", "panic" })

\* the loop has run twice and returned; its second iteration took a chunk
\* without data, an advance of exactly 12 bytes to the end of the stream
C26_WitnessTwoIterations ==
    /\ scan_pc = "done"
    /\ iterations = 2
    /\ Len(input.chunks) = 2
    /\ input.chunks[2] = Chunk(Tag_IEND, << >>)
    /\ chunk_begin_pos = Len(file_bytes)

(***************************************************************************)
(* Properties of create_pattern_png (under SpecPattern).                   *)
(***************************************************************************)
CompositingComplete == pat_pc \in { "writing", "done", "panic" }

\* C1: once the compositing phase has completed, the output pixel at every
\* (x, y) of a positive-sized output is the source pixel at
\* (x mod w, y mod h).
C1_OutputIsTiledSource ==
    (CompositingComplete /\ result_image.width > 0 /\ result_image.height > 0) =>
        \A x \in 0..(result_image.width - 1), y \in 0..(result_image.height - 1) :
            BitmapGet(result_image, x, y) =
                BitmapGet(input_image, x % input_image.width, y % input_image.height)

\* a completed 3x2 output of a 2x2 source, composited in chunks of 2
C1_Witness ==
    /\ CompositingComplete
    /\ result_image.width = 3 /\ result_image.height = 2
    /\ input_image.width = 2 /\ input_image.height = 2
    /\ chunk_size = 2

\* C7: the chunks are the ranges [k*chunk_size, min((k+1)*chunk_size, W*H)):
\* every index of the output buffer lies in exactly one of them; every store
\* so far went to an index of the storing chunk's own range, no index was
\* stored to twice, and when the phase is complete every index was stored to
\* exactly once.
C7_ChunksDisjointAndOwned ==
    pat_pc # "idle" =>
        /\ \A k \in ChunkIndices :
              /\ ChunkBase(k, chunk_size) = k * chunk_size
              /\ ChunkBase(k, chunk_size) + ChunkLen(k, BufferLen, chunk_size)
                    = Min((k + 1) * chunk_size, BufferLen)
              /\ ChunkLen(k, BufferLen, chunk_size) >= 1
        /\ \A i \in 0..(BufferLen - 1) :
              /\ Cardinality({ k \in ChunkIndices :
                    /\ ChunkBase(k, chunk_size) <= i
                    /\ i < ChunkBase(k, chunk_size) + ChunkLen(k, BufferLen, chunk_size) }) = 1
              /\ Len(writers[i]) <= 1
              /\ \A j \in 1..Len(writers[i]) : writers[i][j] = i \div chunk_size
              /\ CompositingComplete => Len(writers[i]) = 1

\* two chunks are being filled at the same time
C7_WitnessTwoChunksInProgress ==
    /\ pat_pc = "compositing"
    /\ \E k1, k2 \in ChunkIndices : k1 # k2 /\ InProgress(k1) /\ InProgress(k2)

\* C8: the completed output buffer is the one a single copy_pixels call over
\* the whole buffer (one chunk, start index 0) produces, whatever the chunk
\* size, the number of threads and the order of the stores.
C8_OutputIndependentOfChunking ==
    CompositingComplete =>
        \A i \in 0..(BufferLen - 1) :
            result_image.data[i + 1] =
                PixelForIndex(input_image, result_image.width, 0, i)

\* on one thread, the last of three chunks is complete before the first is begun
C8_WitnessLateFirstChunk ==
    /\ pat_pc = "compositing"
    /\ NumChunks(BufferLen, chunk_size) = 3
    /\ chunk_size = 2
    /\ progress[2] = 2
    /\ progress[0] = 0
    /\ num_threads = 1

\* C9: after a successful encode_png the writes are: the file creation, the
\* header, one chunk write per preserved chunk (each type once, with its own
\* payload), the pixel rows, finish, in that order.
C9_WriteOrder ==
    enc_pc = "ok" =>
        LET m == Cardinality(DOMAIN png_metadata)
        IN  /\ Len(enc_log) = m + 4
            /\ enc_log[1].op = "create"
            /\ enc_log[2] = LogEntry("header", << >>,
                                     << result_image.width, result_image.height >>)
            /\ \A i \in 3..(m + 2) :
                  /\ enc_log[i].op = "chunk"
                  /\ enc_log[i].tag \in DOMAIN png_metadata
                  /\ enc_log[i].data = png_metadata[enc_log[i].tag]
            /\ \A t \in DOMAIN png_metadata :
                  Cardinality({ i \in 3..(m + 2) : enc_log[i].tag = t }) = 1
            /\ enc_log[m + 3] = LogEntry("rows", << >>, result_image.data)
            /\ enc_log[m + 4].op = "finish"

\* a successful encode of two preserved chunks, pHYs written before gAMA
C9_WitnessTwoChunks ==
    /\ enc_pc = "ok"
    /\ DOMAIN png_metadata = { Tag_gAMA, Tag_pHYs }
    /\ enc_log[3].tag = Tag_pHYs
    /\ enc_log[4].tag = Tag_gAMA

\* C15: when a step of encode_png has failed, create_pattern_png has not
\* panicked (it hands the error to its caller), and the encoder log is the
\* one of the steps before the failing one.
C15_ErrorReturned ==
    enc_pc = "err" => pat_pc # "panic"

\* C16: a step of the encoder (the creation of the output file is the first
\* one) is taken only when every chunk is complete, and changes no pixel;
\* a store of a worker is made only while the encoder has not begun.
C16_FileStepsAfterBarrier ==
    [][ /\ (enc_log' # enc_log \/ enc_pc \notin { "idle", "err", "ok" })
            => /\ \A k \in ChunkIndices :
                     progress[k] = ChunkLen(k, BufferLen, chunk_size)
               /\ result_image' = result_image
               /\ writers' = writers
               /\ progress' = progress
        /\ (result_image' # result_image \/ writers' # writers \/ progress' # progress)
            => (enc_pc = "idle" /\ enc_pc' = "idle" /\ enc_log = << >> /\ enc_log' = << >>)
      ]_vars

\* the output file was created after two threads had filled three chunks
C16_WitnessFileCreated ==
    /\ Len(enc_log) >= 1 /\ enc_log[1].op = "create"
    /\ Cardinality(ChunkIndices) = 3
    /\ num_threads = 2

\* C20: with a requested width or height of zero the output buffer is
\* empty, there is no chunk (copy_pixels is called for none and no store is
\* made), and the compositing phase can only complete: the block is left
\* at once.
C20_ZeroSizedOutput ==
    (pat_pc # "idle" /\ (result_image.width = 0 \/ result_image.height = 0)) =>
        /\ result_image.data = << >>
        /\ ChunkIndices = {}
        /\ writers = << >>
        /\ pat_pc = "compositing" =>
              /\ ENABLED CompositingJoin
              /\ ~ENABLED (\E chunk_index \in ChunkIndices : CopyPixelsStep(chunk_index))
        /\ pat_pc # "panic" \/ enc_pc = "err"

\* the compositing phase was left with an output of width 0 and height 2
C20_WitnessZeroWidth ==
    /\ pat_pc = "writing" /\ enc_pc = "create"
    /\ result_image.width = 0 /\ result_image.height = 2
    /\ result_image.data = << >>

(***************************************************************************)
(* Properties of RepeatyGui (under SpecGui).                               *)
(***************************************************************************)
\* the pixels per millimeter of the image now loaded (lines 560-561)
CurrentPixelsPerMillimeter ==
    pixel_per_inch_in_pixel_per_millimeter(
        IF gui.image.ppi_some THEN gui.image.ppi ELSE F(72))

\* C3: whenever an image is loaded, dim_x = repeat_x * width / density and
\* dim_y = repeat_y * height / density, with the width, height and density
\* of the image now loaded.  (Two NaNs count as equal here.)
C3_DimensionsFollowRepeats ==
    gui.image.some =>
        /\ gui.dim_x = FDiv(FMul(gui.repeat_x, F(gui.image.width)),
                            CurrentPixelsPerMillimeter)
        /\ gui.dim_y = FDiv(FMul(gui.repeat_y, F(gui.image.height)),
                            CurrentPixelsPerMillimeter)

\* C4: the width and height handed to create_pattern_png are the integers
\* nearest to repeat_x * width and repeat_y * height of the image now loaded
\* (whenever those products are finite).
C4_OutputSizeIsRoundedProduct ==
    gui_pc = "running" =>
        LET w == FMul(gui.repeat_x, F(gui.image.width))
            h == FMul(gui.repeat_y, F(gui.image.height))
        IN  /\ w.k = "fin" => pattern_call.result_pixel_width = RoundFin(w)
            /\ h.k = "fin" => pattern_call.result_pixel_height = RoundFin(h)

\* C5: a load of a file with a bad signature, a truncated chunk, a chunk
\* type that is not UTF-8 or a short pHYs payload does not panic: the
\* process goes on handling events (another file can be loaded).
C5_DecodeErrorReturned ==
    last_load.filepath \in MalformedFileNames =>
        last_load.outcome # "panic" /\ gui_pc # "panicked"

Positive(a) == FLt(F(0), a)

\* C10: with repeat_x, repeat_y, dim_x or dim_y not positive (NaN included)
\* create_pattern_png is not called and the process state is not Running.
C10_InvalidRequestRejected ==
    ~(Positive(gui.repeat_x) /\ Positive(gui.repeat_y)
      /\ Positive(gui.dim_x) /\ Positive(gui.dim_y))
        => (~pattern_call.called /\ gui.process_state # "Running")

\* C11: whenever an image is loaded (the states in which a setter can run:
\* load_image calls the setters after it has stored the density, and the edit
\* events call them later), input_image_pixels_per_millimeter is greater
\* than zero.
C11_DensityPositive ==
    gui.image.some => Positive(gui.input_image_pixels_per_millimeter)

\* C13: after every load of an image, at start-up or by a file drop, with no
\* edit event handled so far (the user has supplied no value), repeat_x and
\* repeat_y are 5 and dim_x, dim_y are the dimensions of 5 repeats of the
\* image now loaded.
C13_DefaultsOnLoad ==
    (gui.image.some /\ ~history.edits) =>
        /\ gui.repeat_x = F(5)
        /\ gui.repeat_y = F(5)
        /\ gui.dim_x = FDiv(FMul(F(5), F(gui.image.width)), CurrentPixelsPerMillimeter)
        /\ gui.dim_y = FDiv(FMul(F(5), F(gui.image.height)), CurrentPixelsPerMillimeter)

\* The four numbers of a suffix __AxB__CxDmm, read back from the text
\* (no rendering of a number holds an x or an underscore).
FirstIndexOf(text, c) ==
    IF \E i \in 1..Len(text) : text[i] = c
    THEN CHOOSE i \in 1..Len(text) : text[i] = c /\ \A j \in 1..(i - 1) : text[j] # c
    ELSE 0

Before(text, c) == SubSeq(text, 1, FirstIndexOf(text, c) - 1)

After(text, c) == SubSeq(text, FirstIndexOf(text, c) + 1, Len(text))

SuffixWellFormed(text) ==
    /\ Len(text) >= 11
    /\ SubSeq(text, 1, 2) = << "_", "_" >>
    /\ SubSeq(text, Len(text) - 1, Len(text)) = << "m", "m" >>
    /\ LET body == SubSeq(text, 3, Len(text) - 2)
           pair1 == Before(body, "_")
           rest == After(body, "_")
       IN  /\ FirstIndexOf(body, "_") > 0
           /\ Len(rest) >= 1 /\ rest[1] = "_"
           /\ FirstIndexOf(pair1, "x") > 0
           /\ FirstIndexOf(Tail(rest), "x") > 0

SuffixParts(text) ==
    LET body == SubSeq(text, 3, Len(text) - 2)
        pair1 == Before(body, "_")
        pair2 == Tail(After(body, "_"))
    IN  << Before(pair1, "x"), After(pair1, "x"), Before(pair2, "x"), After(pair2, "x") >>

\* a text of digits, with or without a minus sign in front
IsIntegerText(text) ==
    LET body == IF Len(text) >= 1 /\ text[1] = "-" THEN Tail(text) ELSE text
    IN  Len(body) >= 1 /\ AllDigits(body)

\* digits, a point and exactly two digits, with or without a minus sign
IsTwoDecimalText(text) ==
    LET body == IF Len(text) >= 1 /\ text[1] = "-" THEN Tail(text) ELSE text
    IN  /\ Len(body) >= 4
        /\ body[Len(body) - 2] = "."
        /\ AllDigits(SubSeq(body, 1, Len(body) - 3))
        /\ AllDigits(SubSeq(body, Len(body) - 1, Len(body)))

\* how far the finite value is from the nearest whole number
DistanceToWhole(value) ==
    LET diff == FSubFin(value, F(RoundFin(value))) IN Fin(Abs(diff.n), diff.d)

\* the text is the value rounded to hundredths
WithinHalfHundredth(text, value) ==
    LET diff == FSubFin(ParseF64(text).value, value)
    IN  ~FLt(Fin(1, 200), Fin(Abs(diff.n), diff.d))

\* the rule of the claim for one number of the suffix
RenderedByRule(text, value) ==
    /\ (value.k = "fin" /\ FLt(DistanceToWhole(value), Fin(1, 100)))
          => (IsIntegerText(text) /\ ParseF64(text).value = F(RoundFin(value)))
    /\ ~(value.k = "fin" /\ FLt(DistanceToWhole(value), Fin(1, 100)))
          => (IsTwoDecimalText(text) /\ WithinHalfHundredth(text, value))

SuffixValues == << gui.repeat_x, gui.repeat_y, gui.dim_x, gui.dim_y >>

\* C17: every one of the four numbers of the suffix is an integer without
\* decimals when the value is within 0.01 of a whole number, and has exactly
\* two decimals otherwise.
C17_SuffixByRule ==
    gui_pc = "running" =>
        /\ SuffixWellFormed(pattern_call.suffix_text)
        /\ \A i \in 1..4 :
              RenderedByRule(SuffixParts(pattern_call.suffix_text)[i], SuffixValues[i])

\* the pHYs payload of the loaded image is metric with equal densities
HasMetricDensity(image) ==
    /\ Tag_pHYs \in DOMAIN image.png_metadata
    /\ PhysUnit(image.png_metadata[Tag_pHYs]) = 1
    /\ PhysX(image.png_metadata[Tag_pHYs]) = PhysY(image.png_metadata[Tag_pHYs])

\* C19: after every step, with an image loaded,
\* input_image_pixels_per_millimeter is d / 1000 when the image has a metric
\* pHYs chunk of equal densities d, and 72 / 25.4 otherwise; and only a step
\* that replaces the image (load_image) changes it.  (Exact arithmetic: the
\* rounding of f64 is left out.)
C19_DensityFromImage ==
    [][ /\ gui'.image.some =>
              gui'.input_image_pixels_per_millimeter =
                  IF HasMetricDensity(gui'.image)
                  THEN Fin(PhysX(gui'.image.png_metadata[Tag_pHYs]), 1000)
                  ELSE Fin(720, 254)
        /\ gui'.input_image_pixels_per_millimeter # gui.input_image_pixels_per_millimeter
              => (gui'.image # gui.image /\ last_load'.outcome = "ok"
                  /\ gui_pc \in { "new", "events" } /\ gui_pc' = "events")
      ]_vars

\* the 11811 pixels per meter of the loaded image are still in place after
\* edits and a finished run
C19_WitnessAfterEditsAndRun ==
    /\ gui.image.some /\ gui.image.filepath = "print300"
    /\ gui.input_image_pixels_per_millimeter = Fin(11811, 1000)
    /\ history.edits
    /\ gui.process_state = "Finished"

\* a step of the edit event of an x field, or of a y field, with the text
\* value_str.  (Such a step leaves value_str in the edited text field: the
\* test of the text comes first, so that a step of another kind is told
\* apart without running the setter.)
EditStepX(value_str) ==
    \/ gui'.repeat_x_text = value_str /\ ChangedRepeatCountX(value_str)
    \/ gui'.dim_x_text = value_str /\ ChangedDimensionMillimeterX(value_str)

EditStepY(value_str) ==
    \/ gui'.repeat_y_text = value_str /\ ChangedRepeatCountY(value_str)
    \/ gui'.dim_y_text = value_str /\ ChangedDimensionMillimeterY(value_str)

\* a step of an edit event, of PressedStartButton, or of the return from (or
\* panic in) create_pattern_png that the start handler waits for
EditOrStartStep ==
    \/ \E value_str \in Texts : EditStepX(value_str) \/ EditStepY(value_str)
    \/ PressedStartButton
    \/ CreatePatternReturns
    \/ CreatePatternPanics

\* C21: with an image loaded, a step of one of the four edit events or of
\* PressedStartButton (the run of create_pattern_png included) leaves the
\* loaded Image as it is: the same file path, bitmap size, preserved chunks
\* and resolution.  Stated the other way round: a step that changes the
\* loaded Image is none of those steps.
C21_ImageUnchangedByEvents ==
    [][ (gui.image.some /\ gui'.image # gui.image) => ~EditOrStartStep ]_vars

\* the image loaded at start-up is still the one Image::new built, after edit
\* events and a finished run
C21_WitnessSameImageAfterRun ==
    /\ gui.image.some
    /\ gui.image = ImageNewOf["plain"].image
    /\ history.loads = 1 /\ history.edits
    /\ gui.process_state = "Finished"

\* the fields of one axis, and the fields of the input image
FieldsX(self) == << self.repeat_x, self.dim_x, self.output_image_pixel_width >>

FieldsY(self) == << self.repeat_y, self.dim_y, self.output_image_pixel_height >>

FieldsInput(self) ==
    << self.input_image_pixel_width, self.input_image_pixel_height,
       self.input_image_pixels_per_millimeter >>

\* C22: a step in which set_repeat_count_x or set_dimension_millimeter_x is
\* called (an edit of an x field) leaves repeat_y, dim_y and
\* output_image_pixel_height as they are; a step in which a y setter is
\* called leaves repeat_x, dim_x and output_image_pixel_width as they are;
\* neither changes input_image_pixel_width, input_image_pixel_height or
\* input_image_pixels_per_millimeter.  Stated the other way round: a step
\* that changes one of these fields is no step of an edit of the other axis.
C22_SettersKeepOtherAxis ==
    [][ /\ (FieldsY(gui') # FieldsY(gui) \/ FieldsInput(gui') # FieldsInput(gui))
              => ~(\E value_str \in Texts : EditStepX(value_str))
        /\ (FieldsX(gui') # FieldsX(gui) \/ FieldsInput(gui') # FieldsInput(gui))
              => ~(\E value_str \in Texts : EditStepY(value_str))
      ]_vars

\* an x setter has run on the 3x2 image (repeat_x is 2.5, 7.5 pixels wide)
\* and the y axis still holds the defaults of the load
C22_WitnessXEdited ==
    /\ gui.image.some /\ gui.image.filepath = "plain"
    /\ history.loads = 1
    /\ gui.repeat_x = Fin(5, 2) /\ gui.output_image_pixel_width = Fin(15, 2)
    /\ gui.repeat_y = F(5) /\ gui.output_image_pixel_height = F(10)
    /\ gui.dim_y = FDiv(F(10), gui.input_image_pixels_per_millimeter)

\* C24: whenever the program is between two events, process_state is Idle or
\* Finished (never Running, never NoInput); PressedStartButton with an image
\* loaded sets Running, which holds for as long as create_pattern_png runs,
\* and the return of create_pattern_png sets Finished; PressedStartButton
\* with no image loaded changes nothing; an edit event whose text parses as
\* an f64 sets Idle (a step that leaves another state is no such step).
C24_ProcessStates ==
    [][ /\ gui_pc' = "events" => gui'.process_state \in { "Idle", "Finished" }
        /\ gui_pc' = "running" => gui'.process_state = "Running"
        /\ (gui.image.some /\ PressedStartButton)
              => (gui_pc' = "running" /\ gui'.process_state = "Running")
        /\ (~gui.image.some /\ PressedStartButton) => UNCHANGED vars
        /\ CreatePatternReturns
              => (gui_pc' = "events" /\ gui'.process_state = "Finished")
        /\ gui'.process_state # "Idle"
              => ~(\E value_str \in Texts :
                      /\ ParsedText[value_str].some
                      /\ EditStepX(value_str) \/ EditStepY(value_str))
      ]_vars

\* an edit that parsed has set repeat_x to 2 (and the state to Idle), and a
\* run started after it has returned: the state is Finished between events
C24_WitnessFinishedAfterEdit ==
    /\ gui_pc = "events"
    /\ gui.image.some
    /\ gui.repeat_x = F(2) /\ gui.repeat_x_text = << "2" >>
    /\ gui.process_state = "Finished"
    /\ pattern_call = NoCall

\* C25: a step of an edit event whose text does not parse as an f64 leaves
\* the struct as it was but for the text of the edited field, which is the
\* text of the event: the four values, the two output pixel dimensions, the
\* other three texts, the image and process_state are unchanged.
C25_UnparsedEditOnlyText ==
    [][ \A value_str \in Texts :
            ~ParsedText[value_str].some =>
                /\ ChangedRepeatCountX(value_str)
                      => gui' = [ gui EXCEPT !.repeat_x_text = value_str ]
                /\ ChangedRepeatCountY(value_str)
                      => gui' = [ gui EXCEPT !.repeat_y_text = value_str ]
                /\ ChangedDimensionMillimeterX(value_str)
                      => gui' = [ gui EXCEPT !.dim_x_text = value_str ]
                /\ ChangedDimensionMillimeterY(value_str)
                      => gui' = [ gui EXCEPT !.dim_y_text = value_str ]
      ]_vars

\* the text abc sits in the dim_y field of the first image loaded, next to
\* the values of the load and the Finished of a run
C25_WitnessTextOnly ==
    /\ gui.image.some /\ gui.image.filepath = "plain"
    /\ history.loads = 1
    /\ gui.dim_y_text = << "a", "b", "c" >>
    /\ gui.repeat_y = F(5) /\ gui.repeat_y_text = << "5" >>
    /\ gui.dim_y = FDiv(F(10), gui.input_image_pixels_per_millimeter)
    /\ gui.output_image_pixel_height = F(10)
    /\ gui.process_state = "Finished"

(***************************************************************************)
(* Properties of the functions called on their own (under SpecFn).         *)
(***************************************************************************)
\* C12: get_ppi_from_png_metadata, called on a map with no pHYs entry or with
\* a 9-byte pHYs payload, returns (it does not panic); it returns None
\* exactly when there is no pHYs entry, or the unit is not 1, or the two
\* densities differ; otherwise it returns Some of the horizontal density per
\* meter times 25.4 / 1000.
C12_PpiFromPhys ==
    (fn_call.fn = "get_ppi_from_png_metadata" /\ fn_pc # "ready"
     /\ (Tag_pHYs \in DOMAIN fn_call.arg => Len(fn_call.arg[Tag_pHYs]) = 9))
        => /\ fn_pc = "returned"
           /\ fn_ret.ok
           /\ ~fn_ret.some <=>
                \/ Tag_pHYs \notin DOMAIN fn_call.arg
                \/ PhysUnit(fn_call.arg[Tag_pHYs]) # 1
                \/ PhysX(fn_call.arg[Tag_pHYs]) # PhysY(fn_call.arg[Tag_pHYs])
           /\ fn_ret.some =>
                fn_ret.ppi = Fin(PhysX(fn_call.arg[Tag_pHYs]) * 254, 10000)

\* a metric pHYs with equal densities was converted
C12_WitnessSome ==
    /\ fn_call.fn = "get_ppi_from_png_metadata" /\ fn_pc = "returned"
    /\ fn_ret.some
    /\ fn_ret.ppi = Fin(2999994, 10000)

=============================================================================
